---- MODULE Spec2Model ----
(***************************************************************************)
(* prep-json.py: convert a file of line-delimited JSON records into one    *)
(* JSON document holding the array of those records.                       *)
(*                                                                         *)
(* A file's content is a sequence of lexemes (punctuation, atoms, white    *)
(* space, newline).  The reader splits it into lines and decodes each with *)
(* a JSON parser; json.dump serialises the list with indent=4; the output  *)
(* file receives the serialised lexemes one chunk at a time.               *)
(***************************************************************************)
EXTENDS Integers, Sequences, FiniteSets, TLC

\* ------------------------------------------------------------------ bounds
MaxLines == 3   \* lines in an input file
MaxArgs == 3    \* positional arguments on the command line

\* ------------------------------------------------------------- JSON values
NL == "\n"
SP == " "
Indent == "    "
Whitespace == {SP, Indent, NL}

\* number and string literals with the Python value each decodes to
NumTable == <<[lex |-> "1", n |-> 1], [lex |-> "2", n |-> 2]>>
StrTable == <<[lex |-> "\"a\"", s |-> "a"], [lex |-> "\"b\"", s |-> "b"]>>
NumLexemes == {NumTable[i].lex : i \in DOMAIN NumTable}
StrLexemes == {StrTable[i].lex : i \in DOMAIN StrTable}
NumOf(lex) == NumTable[CHOOSE i \in DOMAIN NumTable : NumTable[i].lex = lex].n
StrOf(lex) == StrTable[CHOOSE i \in DOMAIN StrTable : StrTable[i].lex = lex].s
LexOfNum(n) == NumTable[CHOOSE i \in DOMAIN NumTable : NumTable[i].n = n].lex
LexOfStr(s) == StrTable[CHOOSE i \in DOMAIN StrTable : StrTable[i].s = s].lex

\* a decoded value: None, bool, int, str, list, dict (keys in insertion order)
JNull == [t |-> "null", n |-> 0, s |-> "", keys |-> <<>>, items |-> <<>>]
JBool(b) == [t |-> "bool", n |-> IF b THEN 1 ELSE 0, s |-> "", keys |-> <<>>, items |-> <<>>]
JNum(n) == [t |-> "num", n |-> n, s |-> "", keys |-> <<>>, items |-> <<>>]
JStr(s) == [t |-> "str", n |-> 0, s |-> s, keys |-> <<>>, items |-> <<>>]
JArr(items) == [t |-> "arr", n |-> 0, s |-> "", keys |-> <<>>, items |-> items]
JObj(keys, items) == [t |-> "obj", n |-> 0, s |-> "", keys |-> keys, items |-> items]

\* ---------------------------------------------------------------- decoding
\* dict[k] = v: a repeated key keeps its first position and takes the last value
DictSet(keys, items, k, v) ==
    IF \E i \in DOMAIN keys : keys[i] = k
    THEN [keys |-> keys,
          items |-> [i \in DOMAIN items |-> IF keys[i] = k THEN v ELSE items[i]]]
    ELSE [keys |-> Append(keys, k), items |-> Append(items, v)]

Tok(s, i) == IF i \in DOMAIN s THEN s[i] ELSE "EOF"

RECURSIVE SkipWs(_, _)
SkipWs(s, i) == IF Tok(s, i) \in Whitespace THEN SkipWs(s, i + 1) ELSE i

ParseOk(v, pos) == [ok |-> TRUE, val |-> v, pos |-> pos]
ParseFail == [ok |-> FALSE, val |-> JNull, pos |-> 0]

RECURSIVE ParseValue(_, _)
RECURSIVE ParseElems(_, _, _)
RECURSIVE ParseMembers(_, _, _, _)

\* one JSON value starting at lexeme i
ParseValue(s, i) ==
    LET t == Tok(s, i) IN
    CASE t = "null" -> ParseOk(JNull, i + 1)
      [] t = "true" -> ParseOk(JBool(TRUE), i + 1)
      [] t = "false" -> ParseOk(JBool(FALSE), i + 1)
      [] t \in NumLexemes -> ParseOk(JNum(NumOf(t)), i + 1)
      [] t \in StrLexemes -> ParseOk(JStr(StrOf(t)), i + 1)
      [] t = "[" ->
            LET j == SkipWs(s, i + 1) IN
            IF Tok(s, j) = "]" THEN ParseOk(JArr(<<>>), j + 1)
            ELSE ParseElems(s, j, <<>>)
      [] t = "{" ->
            LET j == SkipWs(s, i + 1) IN
            IF Tok(s, j) = "}" THEN ParseOk(JObj(<<>>, <<>>), j + 1)
            ELSE ParseMembers(s, j, <<>>, <<>>)
      [] OTHER -> ParseFail

ParseElems(s, i, acc) ==
    LET r == ParseValue(s, i) IN
    IF ~r.ok THEN ParseFail
    ELSE LET j == SkipWs(s, r.pos) IN
         CASE Tok(s, j) = "," -> ParseElems(s, SkipWs(s, j + 1), Append(acc, r.val))
           [] Tok(s, j) = "]" -> ParseOk(JArr(Append(acc, r.val)), j + 1)
           [] OTHER -> ParseFail

ParseMembers(s, i, keys, items) ==
    IF Tok(s, i) \notin StrLexemes THEN ParseFail
    ELSE LET c == SkipWs(s, i + 1) IN
         IF Tok(s, c) # ":" THEN ParseFail
         ELSE LET r == ParseValue(s, SkipWs(s, c + 1)) IN
              IF ~r.ok THEN ParseFail
              ELSE LET d == DictSet(keys, items, StrOf(Tok(s, i)), r.val)
                       j == SkipWs(s, r.pos)
                   IN CASE Tok(s, j) = "," -> ParseMembers(s, SkipWs(s, j + 1), d.keys, d.items)
                        [] Tok(s, j) = "}" -> ParseOk(JObj(d.keys, d.items), j + 1)
                        [] OTHER -> ParseFail

\* json.loads: one value, surrounded by optional white space, and nothing else
loads(s) ==
    LET r == ParseValue(s, SkipWs(s, 1)) IN
    IF r.ok /\ SkipWs(s, r.pos) = Len(s) + 1 THEN [ok |-> TRUE, val |-> r.val]
    ELSE [ok |-> FALSE, val |-> JNull]

\* ---------------------------------------------------------------- encoding
RECURSIVE Repeat(_, _)
Repeat(x, n) == IF n = 0 THEN <<>> ELSE <<x>> \o Repeat(x, n - 1)

\* newline_indent of json.encoder with indent=4 at nesting depth level
NewlineIndent(level) == <<NL>> \o Repeat(Indent, level)

RECURSIVE Encode(_, _)
RECURSIVE EncodeItems(_, _, _)
RECURSIVE EncodeMembers(_, _, _, _)

Encode(v, level) ==
    CASE v.t = "null" -> <<"null">>
      [] v.t = "bool" -> IF v.n = 1 THEN <<"true">> ELSE <<"false">>
      [] v.t = "num" -> <<LexOfNum(v.n)>>
      [] v.t = "str" -> <<LexOfStr(v.s)>>
      [] v.t = "arr" ->
            IF v.items = <<>> THEN <<"[", "]">>
            ELSE <<"[">> \o EncodeItems(v.items, 1, level + 1)
                 \o NewlineIndent(level) \o <<"]">>
      [] v.t = "obj" ->
            IF v.keys = <<>> THEN <<"{", "}">>
            ELSE <<"{">> \o EncodeMembers(v.keys, v.items, 1, level + 1)
                 \o NewlineIndent(level) \o <<"}">>

EncodeItems(items, k, level) ==
    IF k > Len(items) THEN <<>>
    ELSE NewlineIndent(level) \o Encode(items[k], level)
         \o (IF k < Len(items) THEN <<",">> ELSE <<>>)
         \o EncodeItems(items, k + 1, level)

EncodeMembers(keys, items, k, level) ==
    IF k > Len(keys) THEN <<>>
    ELSE NewlineIndent(level) \o <<LexOfStr(keys[k]), ":", SP>> \o Encode(items[k], level)
         \o (IF k < Len(keys) THEN <<",">> ELSE <<>>)
         \o EncodeMembers(keys, items, k + 1, level)

\* the text json.dump(obj, f, indent=4) writes
dumps(list) == Encode(JArr(list), 0)

\* ------------------------------------------------------------- environment
Paths == {"in.jsonl", "out.json"}
Program == "prep-json.py"

NoFile == [exists |-> FALSE, data |-> <<>>]
File(data) == [exists |-> TRUE, data |-> data]

\* the texts a line of an input file is drawn from (without the newline)
LineTexts ==
    { <<"{", "\"a\"", ":", "1", "}">>,                        \* {"a":1}
      <<"{", "\"b\"", ":", SP, "[", "2", ",", "null", "]", "}">>,  \* {"b": [2,null]}
      <<"[", "true", ",", "\"b\"", "]">>,                     \* [true,"b"]
      <<"\"a\"">>,                                            \* "a"
      <<"null">>,                                             \* null
      <<>>,                                                   \* a blank line
      <<"{", "\"a\"", ":">> }                                 \* {"a":   (cut short)

RECURSIVE JoinLines(_)
JoinLines(ls) == IF ls = <<>> THEN <<>> ELSE Head(ls) \o <<NL>> \o JoinLines(Tail(ls))

InputFiles == {JoinLines(ls) : ls \in UNION {[1..n -> LineTexts] : n \in 0..MaxLines}}
OldOutput == <<"[", "]", NL>>
ArgLists == UNION {[1..n -> Paths] : n \in 0..MaxArgs}

\* ------------------------------------------------------------ line reading
\* the text up to and including the first newline
RECURSIVE FirstLineLen(_, _)
FirstLineLen(s, i) ==
    IF i > Len(s) THEN Len(s)
    ELSE IF s[i] = NL THEN i ELSE FirstLineLen(s, i + 1)

\* iterating a text file: the lines, each with its newline
RECURSIVE SplitLines(_)
SplitLines(s) ==
    IF s = <<>> THEN <<>>
    ELSE LET n == FirstLineLen(s, 1) IN
         <<SubSeq(s, 1, n)>> \o SplitLines(SubSeq(s, n + 1, Len(s)))

\* not line.rstrip()
IsBlank(line) == \A i \in DOMAIN line : line[i] \in Whitespace

\* a variant of the iteration that passes skip_invalid=True
skip_invalid_on == TRUE

\* `for obj in reader` is reader.iter() with its default arguments
allow_none == FALSE
skip_empty == FALSE
skip_invalid == FALSE

\* Reader.read on one line: the value, or InvalidLineError
ReaderRead(line) ==
    LET r == loads(line) IN
    IF ~r.ok THEN [kind |-> "invalid", val |-> JNull]
    ELSE IF r.val.t = "null" /\ ~allow_none THEN [kind |-> "invalid", val |-> JNull]
    ELSE [kind |-> "value", val |-> r.val]

\* a variant of append that puts the record first
PrependObj(list, obj) == <<obj>> \o list

\* json_objects.append(obj)
AppendObj(list, obj) == Append(list, obj)

\* a variant of open that keeps the content, as mode 'a' does
OpenForAppend(file) == File(file.data)

\* open(output_file, 'w'): the content of the file once opened
OpenForWrite(file) == File(<<>>)

\* a variant without the with block: nothing closes the handle
NoWithExit(isOpen) == isOpen

\* leaving a `with` block, normally or by an exception, closes the handle
WithExit(isOpen) == FALSE

\* ------------------------------------------------------------------- state
VARIABLES
    sys_argv,       \* the command line, program name first
    fs,             \* path -> file
    fs0,            \* the file system before the run
    pc,             \* the statement the run is at
    reader,         \* the input handle is open
    lines,          \* the lines the reader has not read yet
    json_objects,   \* the records read so far
    f,              \* the output handle is open
    pending,        \* serialised text json.dump has not written yet
    stdout,         \* the messages printed
    opens,          \* the open() calls made, in order
    exc,            \* the exception that ended the run, and where it rose
    exitStatus      \* the process's exit status, -1 while it runs

vars == <<sys_argv, fs, fs0, pc, reader, lines, json_objects, f, pending,
          stdout, opens, exc, exitStatus>>

input_file == sys_argv[2]
output_file == sys_argv[3]

UsageMsg == [kind |-> "usage", inp |-> "", out |-> ""]
CombinedMsg(i, o) == [kind |-> "combined", inp |-> i, out |-> o]
NoExc == [type |-> "none", at |-> "none"]
Raise(type, at) == [type |-> type, at |-> at]

Init ==
    /\ sys_argv \in {<<Program>> \o a : a \in ArgLists}
    /\ fs \in {[p \in Paths |-> IF p = "in.jsonl" THEN i ELSE o] :
                 i \in {File(d) : d \in InputFiles} \cup {NoFile},
                 o \in {File(OldOutput), NoFile}}
    /\ fs0 = fs
    /\ pc = "argcheck"
    /\ reader = FALSE
    /\ lines = <<>>
    /\ json_objects = <<>>
    /\ f = FALSE
    /\ pending = <<>>
    /\ stdout = <<>>
    /\ opens = <<>>
    /\ exc = NoExc
    /\ exitStatus = -1

\* an uncaught exception: the traceback goes to stderr, the status is 1
Die(type, at) ==
    /\ exc' = Raise(type, at)
    /\ exitStatus' = 1
    /\ pc' = "done"

\* a variant of the guard that only rejects too few arguments
ArgsTooFew(argv) == Len(argv) < 3

\* len(sys.argv) != 3
ArgsWrong(argv) == Len(argv) # 3

\* lines 4-6: the usage message and sys.exit(1)
Usage ==
    /\ pc = "argcheck"
    /\ ArgsWrong(sys_argv)
    /\ stdout' = Append(stdout, UsageMsg)
    /\ exitStatus' = 1
    /\ exc' = Raise("SystemExit", "argcheck")
    /\ pc' = "done"
    /\ UNCHANGED <<sys_argv, fs, fs0, reader, lines, json_objects, f, pending, opens>>

\* lines 9-14
ArgsOk ==
    /\ pc = "argcheck"
    /\ ~ArgsWrong(sys_argv)
    /\ json_objects' = <<>>
    /\ pc' = "open_in"
    /\ UNCHANGED <<sys_argv, fs, fs0, reader, lines, f, pending, stdout, opens, exc, exitStatus>>

\* line 15: jsonlines.open(input_file)
OpenInput ==
    /\ pc = "open_in"
    /\ fs[input_file].exists
    /\ opens' = Append(opens, [path |-> input_file, mode |-> "r"])
    /\ reader' = TRUE
    /\ lines' = SplitLines(fs[input_file].data)
    /\ pc' = "read"
    /\ UNCHANGED <<sys_argv, fs, fs0, json_objects, f, pending, stdout, exc, exitStatus>>

\* line 15: the input file is missing or unreadable
OpenInputFail ==
    /\ pc = "open_in"
    /\ opens' = Append(opens, [path |-> input_file, mode |-> "r"])
    /\ Die("IOError", "open_in")
    /\ UNCHANGED <<sys_argv, fs, fs0, reader, lines, json_objects, f, pending, stdout>>

\* lines 16-17: one turn of the loop on a line the reader accepts or skips
ReadValue ==
    /\ pc = "read"
    /\ lines # <<>>
    /\ LET line == Head(lines)
           r == ReaderRead(line)
       IN /\ \/ skip_empty /\ IsBlank(line)
             \/ r.kind = "value"
             \/ skip_invalid
          /\ json_objects' = IF (skip_empty /\ IsBlank(line)) \/ r.kind # "value"
                             THEN json_objects
                             ELSE AppendObj(json_objects, r.val)
    /\ lines' = Tail(lines)
    /\ UNCHANGED <<sys_argv, fs, fs0, pc, reader, f, pending, stdout, opens, exc, exitStatus>>

\* a variant of the loop that stops at an invalid line and goes on to write
ReadInvalidBreak ==
    /\ pc = "read"
    /\ lines # <<>>
    /\ ReaderRead(Head(lines)).kind = "invalid"
    /\ reader' = FALSE
    /\ pc' = "open_out"
    /\ UNCHANGED <<sys_argv, fs, fs0, lines, json_objects, f, pending, stdout, opens, exc, exitStatus>>

\* line 16: InvalidLineError leaves the loop and the with block
ReadInvalid ==
    /\ pc = "read"
    /\ lines # <<>>
    /\ LET line == Head(lines) IN
          /\ ~(skip_empty /\ IsBlank(line))
          /\ ReaderRead(line).kind = "invalid"
          /\ ~skip_invalid
    /\ reader' = WithExit(reader)
    /\ Die("InvalidLineError", "read")
    /\ UNCHANGED <<sys_argv, fs, fs0, lines, json_objects, f, pending, stdout, opens>>

\* line 16: reading the file fails
ReadFail ==
    /\ pc = "read"
    /\ lines # <<>>
    /\ reader' = WithExit(reader)
    /\ Die("IOError", "read")
    /\ UNCHANGED <<sys_argv, fs, fs0, lines, json_objects, f, pending, stdout, opens>>

\* line 16: end of file ends the loop, and the with block closes the reader
ReadEof ==
    /\ pc = "read"
    /\ lines = <<>>
    /\ reader' = WithExit(reader)
    /\ pc' = "open_out"
    /\ UNCHANGED <<sys_argv, fs, fs0, lines, json_objects, f, pending, stdout, opens, exc, exitStatus>>

\* line 19: open(output_file, 'w') creates or truncates the file
OpenOutput ==
    /\ pc = "open_out"
    /\ opens' = Append(opens, [path |-> output_file, mode |-> "w"])
    /\ fs' = [fs EXCEPT ![output_file] = OpenForWrite(@)]
    /\ f' = TRUE
    /\ pending' = dumps(json_objects)
    /\ pc' = "write"
    /\ UNCHANGED <<sys_argv, fs0, reader, lines, json_objects, stdout, exc, exitStatus>>

\* line 19: the output path is not writable
OpenOutputFail ==
    /\ pc = "open_out"
    /\ opens' = Append(opens, [path |-> output_file, mode |-> "w"])
    /\ Die("IOError", "open_out")
    /\ UNCHANGED <<sys_argv, fs, fs0, reader, lines, json_objects, f, pending, stdout>>

\* line 20: json.dump writes the next chunk
WriteChunk ==
    /\ pc = "write"
    /\ pending # <<>>
    /\ fs' = [fs EXCEPT ![output_file] = File(Append(@.data, Head(pending)))]
    /\ pending' = Tail(pending)
    /\ UNCHANGED <<sys_argv, fs0, pc, reader, lines, json_objects, f, stdout, opens, exc, exitStatus>>

\* a variant that swallows the write error and carries on
WriteFailIgnored ==
    /\ pc = "write"
    /\ f' = FALSE
    /\ pc' = "print"
    /\ UNCHANGED <<sys_argv, fs, fs0, reader, lines, json_objects, pending, stdout, opens, exc, exitStatus>>

\* line 20: a write fails; the with block closes the handle
WriteFail ==
    /\ pc = "write"
    /\ f' = WithExit(f)
    /\ Die("IOError", "write")
    /\ UNCHANGED <<sys_argv, fs, fs0, reader, lines, json_objects, pending, stdout, opens>>

\* line 20: everything is written and the with block closes the handle
CloseOutput ==
    /\ pc = "write"
    /\ pending = <<>>
    /\ f' = WithExit(f)
    /\ pc' = "print"
    /\ UNCHANGED <<sys_argv, fs, fs0, reader, lines, json_objects, pending, stdout, opens, exc, exitStatus>>

\* line 21, and the end of the script
PrintCombined ==
    /\ pc = "print"
    /\ stdout' = Append(stdout, CombinedMsg(input_file, output_file))
    /\ exitStatus' = 0
    /\ pc' = "done"
    /\ UNCHANGED <<sys_argv, fs, fs0, reader, lines, json_objects, f, pending, opens, exc>>

Next ==
    \/ Usage
    \/ ArgsOk
    \/ OpenInput
    \/ OpenInputFail
    \/ ReadValue
    \/ ReadInvalid
    \/ ReadFail
    \/ ReadEof
    \/ OpenOutput
    \/ OpenOutputFail
    \/ WriteChunk
    \/ WriteFail
    \/ CloseOutput
    \/ PrintCombined

Spec == Init /\ [][Next]_vars

\* ------------------------------------------------------------- the claims
TwoArgs == Len(sys_argv) - 1 = 2
Finished == pc = "done"
Succeeded == pc = "done" /\ exitStatus = 0
IOFailed == exc.type = "IOError"
\* the input file as it was before the run, line by line
InputLines == SplitLines(fs0[sys_argv[2]].data)
NonBlank(ls) == SelectSeq(ls, LAMBDA l : ~IsBlank(l))
Decoded(ls) == [i \in DOMAIN ls |-> loads(ls[i]).val]
\* the document in the output file, decoded
OutputArray == loads(fs[sys_argv[3]].data)
Printed(kind) == \E i \in DOMAIN stdout : stdout[i].kind = kind
OpenedForWrite == \E i \in DOMAIN opens : opens[i].mode = "w"

\* C1: after a successful run the output file holds a JSON array whose i-th
\* element equals the value decoded from the i-th non-blank line of the input:
\* the records are in file order, none dropped, duplicated or altered.
C1_OrderAndFidelity ==
    Succeeded =>
        /\ OutputArray.ok
        /\ OutputArray.val.t = "arr"
        /\ OutputArray.val.items = Decoded(NonBlank(InputLines))

\* a successful run over at least two different records
C1_Witness ==
    /\ Succeeded
    /\ Len(InputLines) >= 2
    /\ InputLines[1] # InputLines[2]
    /\ OutputArray.val.items[1].t = "obj"

\* C2: a well-formed input (every non-blank line valid JSON, blank lines
\* possibly interspersed) with N non-blank lines is converted successfully
\* into an array of exactly N elements, unless file I/O fails.
C2_Cardinality ==
    (/\ Finished /\ TwoArgs /\ ~IOFailed
     /\ \A i \in DOMAIN InputLines :
            IsBlank(InputLines[i]) \/ loads(InputLines[i]).ok)
    => /\ exitStatus = 0
       /\ OutputArray.ok
       /\ Len(OutputArray.val.items) = Len(NonBlank(InputLines))

\* C3: an input with blank lines between lines the reader accepts is
\* converted successfully, to the output of the same input without them.
C3_BlankLineTolerance ==
    (/\ Finished /\ TwoArgs /\ ~IOFailed
     /\ \E i \in DOMAIN InputLines :
            /\ IsBlank(InputLines[i])
            /\ i - 1 \in DOMAIN InputLines /\ ~IsBlank(InputLines[i - 1])
            /\ i + 1 \in DOMAIN InputLines /\ ~IsBlank(InputLines[i + 1])
     /\ \A i \in DOMAIN InputLines :
            IsBlank(InputLines[i]) \/ ReaderRead(InputLines[i]).kind = "value")
    => /\ exitStatus = 0
       /\ fs[sys_argv[3]] = File(dumps(Decoded(NonBlank(InputLines))))

\* C4: with a number of positional arguments other than 2 the run prints the
\* usage message, exits with status 1 and does no file I/O: no file is
\* opened, created or changed, and the completion message is never printed.
C4_ArgumentGuard ==
    ~TwoArgs =>
        /\ opens = <<>>
        /\ fs = fs0
        /\ ~reader /\ ~f
        /\ ~Printed("combined")
        /\ pc \in {"argcheck", "done"}
        /\ Finished => stdout = <<UsageMsg>> /\ exitStatus = 1

\* a finished run that was given three positional arguments
C4_Witness ==
    /\ Finished
    /\ Len(sys_argv) - 1 = 3
    /\ fs0[sys_argv[2]].exists

\* C5: any valid JSON value on a line (object, array, string, number,
\* boolean, null) is accepted and preserved in the output array.
C5_AnyValueAccepted ==
    (/\ Finished /\ TwoArgs /\ ~IOFailed
     /\ \A i \in DOMAIN InputLines : loads(InputLines[i]).ok)
    => /\ exitStatus = 0
       /\ OutputArray.ok
       /\ OutputArray.val.items = Decoded(InputLines)

\* a line that is not blank and is not valid JSON
Malformed(line) == ~IsBlank(line) /\ ~loads(line).ok
HasMalformedLine ==
    /\ TwoArgs
    /\ fs0[sys_argv[2]].exists
    /\ \E i \in DOMAIN InputLines : Malformed(InputLines[i])

\* C6: when a line of the input is not valid JSON the run never prints the
\* completion message and never exits with status 0, wherever the line is.
C6_MalformedRejected ==
    HasMalformedLine =>
        /\ ~Printed("combined")
        /\ exitStatus # 0
        /\ Finished => exitStatus = 1

\* the run ended on a malformed line that has valid lines before and after it
C6_Witness ==
    /\ Finished
    /\ exc = Raise("InvalidLineError", "read")
    /\ Len(json_objects) >= 1
    /\ Len(lines) >= 2
    /\ Malformed(Head(lines))
    /\ loads(lines[2]).ok

\* C7: the run exits with status 0 exactly when the completion message, naming
\* both paths, was printed, once, which is exactly when no step failed; and
\* the message is printed only once the whole array is in the output file and
\* the output handle is closed.
C7_CompletionMessage ==
    /\ Printed("combined") =>
          /\ stdout = <<CombinedMsg(sys_argv[2], sys_argv[3])>>
          /\ ~f /\ pending = <<>>
          /\ fs[sys_argv[3]] = File(dumps(json_objects))
          /\ exc = NoExc
          /\ Succeeded
    /\ exitStatus = 0 => Printed("combined")
    /\ Finished => (exc = NoExc <=> exitStatus = 0)
    /\ Finished /\ exc.type \in {"IOError", "InvalidLineError"} => ~Printed("combined")

\* a successful run, its message printed
C7_Witness ==
    /\ Succeeded
    /\ stdout = <<CombinedMsg("in.jsonl", "out.json")>>
    /\ Len(json_objects) >= 1

\* C8: after a successful run the output file exists and holds exactly the
\* serialised array of the records read from the input, nothing of what it
\* held before.
C8_OutputReplaced ==
    Succeeded =>
        /\ fs[sys_argv[3]].exists
        /\ fs[sys_argv[3]].data = dumps(json_objects)
        /\ json_objects = Decoded(InputLines)

\* a successful run over an output file that existed with other content
C8_Witness ==
    /\ Succeeded
    /\ sys_argv[2] # sys_argv[3]
    /\ fs0[sys_argv[3]].exists
    /\ fs0[sys_argv[3]].data # <<>>
    /\ fs0[sys_argv[3]].data # fs[sys_argv[3]].data

\* C9: each handle is open only while its block runs, both are closed in every
\* terminal state, whatever ended the run, and the input handle is closed
\* before the output file is opened: never are both open.
C9_HandlesScoped ==
    /\ ~(reader /\ f)
    /\ reader => pc = "read"
    /\ f => pc = "write"
    /\ OpenedForWrite => ~reader
    /\ Finished => ~reader /\ ~f

\* a run that ended on a write error, part of the array written
C9_Witness ==
    /\ Finished
    /\ exc = Raise("IOError", "write")
    /\ Len(opens) = 2
    /\ pending # <<>>

\* C10: the output file is opened only after the whole input has been read and
\* decoded; a run that fails opening or reading the input never opens the
\* output path and leaves every file as it was; a changed output file under a
\* failed run comes from a failure of the write step alone.
C10_OutputUntouchedOnInputFailure ==
    /\ ~OpenedForWrite => fs = fs0
    /\ OpenedForWrite => lines = <<>> /\ ~reader /\ exc.at \notin {"open_in", "read"}
    /\ exc.at \in {"open_in", "read"} => fs = fs0 /\ ~OpenedForWrite
    /\ Finished /\ exitStatus # 0 /\ fs # fs0 => exc.at = "write"

\* a run over an existing output file that failed on the second line
C10_Witness ==
    /\ Finished
    /\ exc.at = "read"
    /\ Len(json_objects) = 1
    /\ fs0[sys_argv[3]].exists
    /\ sys_argv[2] # sys_argv[3]

====
